---- MODULE Spec2Model ----
(***************************************************************************)
(* PulseDemo: a face-tracked cube over a scrolling street whose speed     *)
(* follows a "blowing" mouth gesture.  src/src/main.js holds four          *)
(* successive iterations of the demo, one after the other:                 *)
(*   iteration 1: lines   1-212   (camera limits, click to start)          *)
(*   iteration 2: lines 214-428   (starts without a click)                 *)
(*   iteration 3: lines 430-684   (Safari: click to start, tracker first)  *)
(*   iteration 4: lines 686-950   (Samsung: try/catch around the start)    *)
(* The model runs one of the click-started iterations 1, 3 and 4, chosen   *)
(* when the page loads.                                                    *)
(*                                                                         *)
(* Numbers.  Speeds, depths, blendshape scores and scales are fixed-point  *)
(* integers counting thousandths: MAX_SPEED 0.5 is 500, ACCEL 0.002 is 2,  *)
(* the recycling distance 40 is 40000.  Every quantity the code computes   *)
(* from these by + and - is a whole number of thousandths.                 *)
(*                                                                         *)
(* Not modelled: the x position and the height of a building (fresh        *)
(* Math.random() draws that nothing reads), the lights and the environment *)
(* map, and the device-dependent renderer settings of iteration 4.  The    *)
(* page is taken to hold the #status, #speedometer and #camera-preview     *)
(* elements.  An absent est.scale and a scale of 0 are both written 0.     *)
(*                                                                         *)
(* Three specifications.  Spec lets the tracker publish any estimate       *)
(* between any two frames and follows the street over a short distance.    *)
(* SpecHold follows it over several passes of the buildings, with a face   *)
(* that keeps each pose for at least MinHold frames.  SpecForms steps two  *)
(* copies of the street, one by each form of updateBackground, from any    *)
(* speed and under any sequence of isBlowing.                              *)
(***************************************************************************)
EXTENDS Integers, Sequences, FiniteSets, TLC

\* ------------------------------------------------------------ program constants
MOUTH_THRESHOLD == 500
MAX_SPEED == 500
ACCEL == 2
DECEL == 1
NormalColor == 65280
AlertColor == 16711680
BuildingCount == 20
FirstDepth == 2000
Spacing == 2000
RecycleEdge == 2000
RecycleDistance == 40000

\* ------------------------------------------------------------ bounds of the model
\* Spec: the street may travel this far (thousandths); estimates change freely.
MaxTravel == 60
\* SpecHold: the street may travel this far; an estimate is held MinHold frames.
MaxHeldTravel == 204000
MinHold == 250
\* SpecForms: how far the background group may travel (the first building is
\* recycled once the group has moved more than 4).
MaxFormsTravel == 4400

Iterations == {1, 3, 4}

Min(a, b) == IF a < b THEN a ELSE b
Max(a, b) == IF a > b THEN a ELSE b

\* ------------------------------------------------------------ tracker estimates
\* A category of the blendshape list.
Cat(name, score) == [categoryName |-> name, score |-> score]

\* getLatestEstimate(): null (face = FALSE), or an estimate that may lack
\* blendshapes (hasBlend = FALSE) and may lack a scale (scale = 0).
Estimate(face, hasBlend, cats, scale) ==
  [face |-> face, hasBlend |-> hasBlend, categories |-> cats, scale |-> scale]

NoEstimate == Estimate(FALSE, FALSE, <<>>, 0)

CategoryLists ==
  { <<>>,
    <<Cat("mouthFunnel", 500), Cat("mouthPucker", 500)>>,
    <<Cat("mouthFunnel", 501)>>,
    <<Cat("jawOpen", 900), Cat("mouthPucker", 501)>>,
    <<Cat("jawOpen", 900), Cat("mouthFunnel", 0)>> }

Scales == {0, 2000}

Estimates ==
  {NoEstimate}
    \cup {Estimate(TRUE, FALSE, <<>>, sc) : sc \in Scales}
    \cup {Estimate(TRUE, TRUE, cats, sc) : cats \in CategoryLists, sc \in Scales}

\* The two faces of SpecHold: lips pursed, and lips at rest.
HeldEstimates ==
  { Estimate(TRUE, TRUE, <<Cat("jawOpen", 900), Cat("mouthPucker", 501)>>, 0),
    Estimate(TRUE, TRUE, <<Cat("mouthFunnel", 500), Cat("mouthPucker", 500)>>, 0) }

\* ------------------------------------------------------------ status texts
Status(kind, f, p) == [kind |-> kind, funnel |-> f, pucker |-> p]
Text(kind) == Status(kind, 0, 0)

ErrorKinds ==
  {"Camera access denied: ", "Failed to start: ", "Setup failed: ", "Error: "}

\* ------------------------------------------------------------ state
VARIABLES
  iter,             \* which iteration of the demo the page runs
  pc,               \* where start() / enable() stands
  status,           \* #status textContent
  listener,         \* the click listener is registered on document.body
  uncaught,         \* a promise rejection escaped every handler
  logged,           \* console.error was called
  mindarThree,      \* the MindARThree object exists
  trackerOn,        \* mindarThree.start() has resolved
  videoSrc,         \* #camera-preview has a srcObject
  videoPlaying,     \* videoEl.play() has resolved
  loopOn,           \* renderer.setAnimationLoop(callback) was called
  failure,          \* history: the step whose failure ended the start flow, or ""
  latestEstimate,   \* what mindarThree.getLatestEstimate() returns
  cube,             \* the cube mesh
  backgroundGroup,  \* the THREE.Group of the street
  buildings,        \* position.z of each building, in creation order
  backgroundSpeed,
  targetSpeed,
  speedometer,      \* #speedometer text and colour
  setupCalls,       \* history: calls of setup()
  enableCalls,      \* history: calls of the click handler
  loopInstalls,     \* history: calls of setAnimationLoop
  frames,           \* history: has the frame callback run
  held,             \* history (SpecHold): frames rendered since the estimate changed
  twin              \* (SpecForms) the same street under the if / else-if updateBackground

vars ==
  << iter, pc, status, listener, uncaught, logged, mindarThree, trackerOn, videoSrc,
     videoPlaying, loopOn, failure, latestEstimate, cube, backgroundGroup, buildings,
     backgroundSpeed, targetSpeed, speedometer, setupCalls, enableCalls,
     loopInstalls, frames, held, twin >>

sceneVars ==
  << cube, backgroundGroup, buildings, backgroundSpeed, targetSpeed, speedometer >>

flowVars ==
  << pc, status, listener, uncaught, logged, mindarThree, trackerOn, videoSrc,
     videoPlaying, loopOn, failure, setupCalls, enableCalls, loopInstalls >>

NoCube == [created |-> FALSE, color |-> 0, scale |-> 0, metalness |-> 0, roughness |-> 0]
NoGroup == [created |-> FALSE, z |-> 0]
NoSpeedometer == [pct |-> 0, color |-> ""]
NoTwin == [speed |-> 0, z |-> 0, buildings |-> << >>, atTarget |-> FALSE]

Init ==
  /\ iter \in Iterations
  /\ pc = "load"
  /\ status = Text("")
  /\ listener = FALSE
  /\ uncaught = FALSE
  /\ logged = FALSE
  /\ mindarThree = FALSE
  /\ trackerOn = FALSE
  /\ videoSrc = FALSE
  /\ videoPlaying = FALSE
  /\ loopOn = FALSE
  /\ failure = ""
  /\ latestEstimate = NoEstimate
  /\ cube = NoCube
  /\ backgroundGroup = NoGroup
  /\ buildings = <<>>
  /\ backgroundSpeed = 0
  /\ targetSpeed = 0
  /\ speedometer = NoSpeedometer
  /\ setupCalls = 0
  /\ enableCalls = 0
  /\ loopInstalls = 0
  /\ frames = FALSE
  /\ held = 0
  /\ twin = NoTwin

\* ------------------------------------------------------------ the street
\* createBackground: building i is placed at z = -2 - i * 2, for i = 0 .. 19.
CreateBackground == [n \in 1..BuildingCount |-> 0 - FirstDepth - (n - 1) * Spacing]

TargetFor(isBlowing) == IF isBlowing THEN MAX_SPEED ELSE 0

\* (mutant) the conditional expression without Math.max: at the target the
\* speed still goes down.
RampTernaryNoFloor(speed, target) ==
  IF speed < target THEN Min(speed + ACCEL, target) ELSE speed - DECEL

\* (mutant) the step up is not held at the target.
RampTernaryOvershoot(speed, target) ==
  IF speed < target
    THEN speed + ACCEL
    ELSE Max(speed - DECEL, target)

\* (mutant) the two step sizes are swapped.
RampTernarySwapped(speed, target) ==
  IF speed < target
    THEN Min(speed + DECEL, target)
    ELSE Max(speed - ACCEL, target)

\* The ramp of iterations 1 and 4: a conditional expression.
RampTernary(speed, target) ==
  IF speed < target
    THEN Min(speed + ACCEL, target)
    ELSE Max(speed - DECEL, target)

\* The ramp of iterations 2 and 3: if / else if.
RampIfElse(speed, target) ==
  IF speed < target
    THEN Min(speed + ACCEL, target)
    ELSE IF speed > target
      THEN Max(speed - DECEL, target)
      ELSE speed

Ramp(speed, target) ==
  IF iter = 3 THEN RampIfElse(speed, target) ELSE RampTernary(speed, target)

\* (mutant) the building is moved towards the viewer.
RecycleForward(bs, gz) ==
  [n \in DOMAIN bs |->
     IF bs[n] + gz > RecycleEdge THEN bs[n] + RecycleDistance ELSE bs[n]]

\* (mutant) the building is moved back by one slot too few.
RecycleShort(bs, gz) ==
  [n \in DOMAIN bs |->
     IF bs[n] + gz > RecycleEdge THEN bs[n] - (RecycleDistance - Spacing) ELSE bs[n]]

\* (mutant) a building in front of the edge is dropped from the array.
RecycleRemove(bs, gz) ==
  LET Behind(z) == z + gz <= RecycleEdge IN SelectSeq(bs, Behind)

\* buildings.forEach: a building in front of the edge goes back by 40.
Recycle(bs, gz) ==
  [n \in DOMAIN bs |->
     IF bs[n] + gz > RecycleEdge THEN bs[n] - RecycleDistance ELSE bs[n]]

\* Math.round((speed / MAX_SPEED) * 100): the nearest integer, halves upwards.
SpeedPct(speed) == (2 * 100 * speed + MAX_SPEED) \div (2 * MAX_SPEED)

\* (mutant) the colour changes at 70 and 30 instead of above them.
SpeedColorAtLeast(pct) ==
  IF pct >= 70 THEN "#ff4444" ELSE IF pct >= 30 THEN "#ffaa44" ELSE "#44ff44"

SpeedColor(pct) ==
  IF pct > 70 THEN "#ff4444" ELSE IF pct > 30 THEN "#ffaa44" ELSE "#44ff44"

UpdateBackground(isBlowing) ==
  LET target == TargetFor(isBlowing)
      speed == Ramp(backgroundSpeed, target)
      gz == backgroundGroup.z + speed
  IN /\ targetSpeed' = target
     /\ backgroundSpeed' = speed
     /\ backgroundGroup' = [backgroundGroup EXCEPT !.z = gz]
     /\ buildings' = Recycle(buildings, gz)
     /\ speedometer' = [pct |-> SpeedPct(speed), color |-> SpeedColor(SpeedPct(speed))]

\* ------------------------------------------------------------ the gesture
RECURSIVE FindFrom(_, _, _)
\* categories.find(c => c.categoryName === name), from index n on: the index of
\* the first match, 0 for undefined.
FindFrom(cats, name, n) ==
  IF n > Len(cats) THEN 0
  ELSE IF cats[n].categoryName = name THEN n
  ELSE FindFrom(cats, name, n + 1)

Find(cats, name) == FindFrom(cats, name, 1)

\* funnel?.score || 0  (iterations 2, 3: funnel ? funnel.score : 0)
ScoreOf(cats, name) ==
  IF Find(cats, name) = 0 THEN 0 ELSE cats[Find(cats, name)].score

\* (mutant) a score equal to the threshold counts.
IsBlowingAtLeast(f, p) == f >= MOUTH_THRESHOLD \/ p >= MOUTH_THRESHOLD

IsBlowing(f, p) == f > MOUTH_THRESHOLD \/ p > MOUTH_THRESHOLD

\* (score * 100).toFixed(0): the score as a whole percentage.
Percent(score) == (score + 5) \div 10

\* (mutant) the two colours are swapped.
HandleBlendshapesSwapped(cats) ==
  LET f == ScoreOf(cats, "mouthFunnel")
      p == ScoreOf(cats, "mouthPucker")
      blowing == IsBlowing(f, p)
  IN [ blowing |-> blowing,
       color |-> IF blowing THEN NormalColor ELSE AlertColor,
       metalness |-> cube.metalness,
       roughness |-> cube.roughness,
       status |-> Status(IF blowing THEN "MOVING! Funnel %, Pucker %"
                                    ELSE "Funnel %, Pucker %", Percent(f), Percent(p)) ]

\* handleBlendshapes: what it returns, and what it leaves in the cube and #status.
HandleBlendshapes(cats) ==
  LET f == ScoreOf(cats, "mouthFunnel")
      p == ScoreOf(cats, "mouthPucker")
      blowing == IsBlowing(f, p)
  IN [ blowing |-> blowing,
       color |-> IF blowing THEN AlertColor ELSE NormalColor,
       metalness |-> IF iter # 3 THEN cube.metalness
                     ELSE IF blowing THEN 1000 ELSE 500,
       roughness |-> IF iter # 3 THEN cube.roughness
                     ELSE IF blowing THEN 50 ELSE 500,
       status |->
         IF iter = 3
           THEN Status(IF blowing THEN "MOVING FORWARD! Funnel: %, Pucker: %"
                                  ELSE "Funnel: %, Pucker: %", Percent(f), Percent(p))
           ELSE Status(IF blowing THEN "MOVING! Funnel %, Pucker %"
                                  ELSE "Funnel %, Pucker %", Percent(f), Percent(p)) ]

\* (mutant) a frame without blendshapes puts the cube back to the normal colour.
FrameCallbackResets ==
  LET est == latestEstimate
      read == est.face /\ est.hasBlend
      hb == HandleBlendshapes(est.categories)
      blowing == IF read THEN hb.blowing ELSE FALSE
      scaled == est.face /\ est.scale # 0
  IN /\ status' = IF read THEN hb.status ELSE status
     /\ cube' = [cube EXCEPT
                   !.color = IF read THEN hb.color ELSE NormalColor,
                   !.metalness = IF read THEN hb.metalness ELSE @,
                   !.roughness = IF read THEN hb.roughness ELSE @,
                   !.scale = IF scaled THEN (1000 * 1000) \div est.scale ELSE @]
     /\ UpdateBackground(blowing)
     /\ frames' = TRUE
     /\ UNCHANGED << iter, twin, pc, listener, uncaught, logged, mindarThree, trackerOn,
                     videoSrc, videoPlaying, loopOn, failure, latestEstimate,
                     setupCalls, enableCalls, loopInstalls >>

\* The callback given to renderer.setAnimationLoop.
FrameCallback ==
  LET est == latestEstimate
      read == est.face /\ est.hasBlend
      hb == HandleBlendshapes(est.categories)
      blowing == IF read THEN hb.blowing ELSE FALSE
      scaled == est.face /\ est.scale # 0
  IN /\ status' = IF read THEN hb.status ELSE status
     /\ cube' = [cube EXCEPT
                   !.color = IF read THEN hb.color ELSE @,
                   !.metalness = IF read THEN hb.metalness ELSE @,
                   !.roughness = IF read THEN hb.roughness ELSE @,
                   !.scale = IF scaled THEN (1000 * 1000) \div est.scale ELSE @]
     /\ UpdateBackground(blowing)
     /\ frames' = TRUE
     /\ UNCHANGED << iter, twin, pc, listener, uncaught, logged, mindarThree, trackerOn,
                     videoSrc, videoPlaying, loopOn, failure, latestEstimate,
                     setupCalls, enableCalls, loopInstalls >>

\* ------------------------------------------------------------ the start flow
\* setup(): an async function with no await in it, so its whole body runs inside
\* the call.  What it leaves behind when it completes.
SetupDone ==
  /\ mindarThree' = TRUE
  /\ backgroundGroup' = [created |-> TRUE, z |-> 0]
  /\ buildings' = buildings \o CreateBackground
  /\ cube' = [created |-> TRUE, color |-> NormalColor, scale |-> 1000,
              metalness |-> IF iter = 3 THEN 800 ELSE 700,
              roughness |-> IF iter = 3 THEN 200 ELSE 300]

\* What setup() leaves behind when it throws: in the MindARThree constructor
\* (nothing exists yet) or in addAnchor (everything was created).
SetupThrown(stage) ==
  IF stage = "construct"
    THEN UNCHANGED << mindarThree, backgroundGroup, buildings, cube >>
    ELSE SetupDone

\* start() up to its first await, setup() completing.
LoadOk ==
  /\ pc = "load"
  /\ setupCalls' = setupCalls + 1
  /\ SetupDone
  /\ status' = IF iter = 3 THEN Text("Setup complete. Tap to start camera...")
                           ELSE Text("Initializing...")
  /\ pc' = "awaitSetup"
  /\ UNCHANGED << iter, twin, listener, uncaught, logged, trackerOn, videoSrc, videoPlaying,
                  loopOn, failure, latestEstimate, backgroundSpeed, targetSpeed,
                  speedometer, enableCalls, loopInstalls, frames, held >>

\* (mutant) the handler of a failed setup does not return: start goes on.
LoadFailsFallsThrough ==
  /\ pc = "load"
  /\ setupCalls' = setupCalls + 1
  /\ \E stage \in {"construct", "anchor"} : SetupThrown(stage)
  /\ status' = IF iter = 1 THEN Text("Initializing...")
               ELSE IF iter = 3 THEN Text("Error: ")
               ELSE Text("Setup failed: ")
  /\ logged' = (iter # 1)
  /\ uncaught' = (iter = 1)
  /\ failure' = "setup"
  /\ pc' = "awaitSetup"
  /\ UNCHANGED << iter, twin, listener, trackerOn, videoSrc, videoPlaying, loopOn,
                  latestEstimate, backgroundSpeed, targetSpeed, speedometer,
                  enableCalls, loopInstalls, frames, held >>

\* start() up to its first await, setup() throwing: iteration 1 has no handler,
\* iteration 3 catches it around the whole of start, iteration 4 around setup.
LoadFails ==
  /\ pc = "load"
  /\ setupCalls' = setupCalls + 1
  /\ \E stage \in {"construct", "anchor"} : SetupThrown(stage)
  /\ status' = IF iter = 1 THEN Text("Initializing...")
               ELSE IF iter = 3 THEN Text("Error: ")
               ELSE Text("Setup failed: ")
  /\ logged' = (iter # 1)
  /\ uncaught' = (iter = 1)
  /\ failure' = "setup"
  /\ pc' = "failed"
  /\ UNCHANGED << iter, twin, listener, trackerOn, videoSrc, videoPlaying, loopOn,
                  latestEstimate, backgroundSpeed, targetSpeed, speedometer,
                  enableCalls, loopInstalls, frames, held >>

\* start() after await setup(): the click listener is registered.
RegisterListener ==
  /\ pc = "awaitSetup"
  /\ listener' = TRUE
  /\ status' = IF iter = 3 THEN Text("Tap anywhere to enable camera")
                           ELSE Text("Tap to start camera")
  /\ pc' = "idle"
  /\ UNCHANGED << iter, twin, uncaught, logged, mindarThree, trackerOn, videoSrc,
                  videoPlaying, loopOn, failure, latestEstimate, setupCalls,
                  enableCalls, loopInstalls, frames, held >>
  /\ UNCHANGED sceneVars

\* (mutant) the handler forgets to remove itself.
ClickKeepsListener ==
  /\ listener
  /\ enableCalls' = enableCalls + 1
  /\ status' = IF iter = 3 THEN status ELSE Text("Starting camera...")
  /\ pc' = IF iter = 3 THEN "tracker" ELSE "camera"
  /\ UNCHANGED << iter, twin, listener, uncaught, logged, mindarThree, trackerOn, videoSrc,
                  videoPlaying, loopOn, failure, latestEstimate, setupCalls,
                  loopInstalls, frames, held >>
  /\ UNCHANGED sceneVars

\* A click on document.body is delivered to the registered listener: enable()
\* (enableCamera() in iteration 3) up to its first await.  A click with no
\* listener registered runs no code.
Click ==
  /\ listener
  /\ listener' = FALSE
  /\ enableCalls' = enableCalls + 1
  /\ status' = IF iter = 3 THEN status ELSE Text("Starting camera...")
  /\ pc' = IF iter = 3 THEN "tracker" ELSE "camera"
  /\ UNCHANGED << iter, twin, uncaught, logged, mindarThree, trackerOn, videoSrc,
                  videoPlaying, loopOn, failure, latestEstimate, setupCalls,
                  loopInstalls, frames, held >>
  /\ UNCHANGED sceneVars

\* (mutant) the handler puts the click listener back after a failure.
RejectedRetry(step) ==
  /\ failure' = step
  /\ pc' = "idle"
  /\ listener' = TRUE
  /\ uncaught' = (iter # 4)
  /\ logged' = (iter = 4 \/ step = "camera" \/ logged)
  /\ status' = IF iter = 4 THEN Text("Failed to start: ")
               ELSE IF step = "camera" THEN Text("Camera access denied: ")
               ELSE status

\* A rejection inside enable(): iteration 4 catches it in enable, iterations 1
\* and 3 have no handler.  getConstrainedCameraStream has logged and set the
\* status before it rethrows.
Rejected(step) ==
  /\ failure' = step
  /\ pc' = "failed"
  /\ listener' = listener
  /\ uncaught' = (iter # 4)
  /\ logged' = (iter = 4 \/ step = "camera" \/ logged)
  /\ status' = IF iter = 4 THEN Text("Failed to start: ")
               ELSE IF step = "camera" THEN Text("Camera access denied: ")
               ELSE status

\* renderer.setAnimationLoop(callback)
InstallLoop ==
  /\ loopOn' = TRUE
  /\ loopInstalls' = loopInstalls + 1
  /\ pc' = "running"

\* getUserMedia resolves: the stream becomes the preview's srcObject and
\* videoEl.play() is called.
CameraGranted ==
  /\ pc = "camera"
  /\ videoSrc' = TRUE
  /\ pc' = "play"
  /\ UNCHANGED << iter, twin, status, listener, uncaught, logged, mindarThree, trackerOn,
                  videoPlaying, loopOn, failure, latestEstimate, setupCalls,
                  enableCalls, loopInstalls, frames, held >>
  /\ UNCHANGED sceneVars

\* getUserMedia rejects.
CameraDenied ==
  /\ pc = "camera"
  /\ Rejected("camera")
  /\ UNCHANGED << iter, twin, mindarThree, trackerOn, videoSrc, videoPlaying,
                  loopOn, latestEstimate, setupCalls, enableCalls, loopInstalls,
                  frames, held >>
  /\ UNCHANGED sceneVars

\* videoEl.play() resolves: iterations 1 and 4 go on to start the tracker,
\* iteration 3 (tracker already started) installs the loop.
PlayOk ==
  /\ pc = "play"
  /\ videoPlaying' = TRUE
  /\ IF iter = 3
       THEN InstallLoop
       ELSE pc' = "tracker" /\ UNCHANGED << loopOn, loopInstalls >>
  /\ UNCHANGED << iter, twin, status, listener, uncaught, logged, mindarThree, trackerOn,
                  videoSrc, failure, latestEstimate, setupCalls, enableCalls,
                  frames, held >>
  /\ UNCHANGED sceneVars

\* (mutant) a rejected play() is swallowed and the tracker is started anyway.
PlayFailsSwallowed ==
  /\ pc = "play"
  /\ pc' = IF iter = 3 THEN "running" ELSE "tracker"
  /\ loopOn' = (iter = 3)
  /\ loopInstalls' = IF iter = 3 THEN loopInstalls + 1 ELSE loopInstalls
  /\ UNCHANGED << iter, twin, status, listener, uncaught, logged, mindarThree, trackerOn,
                  videoSrc, videoPlaying, failure, latestEstimate, setupCalls,
                  enableCalls, frames, held >>
  /\ UNCHANGED sceneVars

\* videoEl.play() rejects: iteration 3 only warns and goes on.
PlayFails ==
  /\ pc = "play"
  /\ IF iter = 3
       THEN InstallLoop /\ UNCHANGED << failure, uncaught, logged, status, listener >>
       ELSE Rejected("play") /\ UNCHANGED << loopOn, loopInstalls >>
  /\ UNCHANGED << iter, twin, mindarThree, trackerOn, videoSrc, videoPlaying,
                  latestEstimate, setupCalls, enableCalls, frames, held >>
  /\ UNCHANGED sceneVars

\* mindarThree.start() resolves: iterations 1 and 4 install the loop, iteration 3
\* copies the tracker's video into the preview and plays it.
TrackerStarts ==
  /\ pc = "tracker"
  /\ trackerOn' = TRUE
  /\ status' = IF iter = 3 THEN Text("Tracking active. Blow to move forward!")
                           ELSE Text("Tracking started - blow to move")
  /\ IF iter = 3
       THEN videoSrc' = TRUE /\ pc' = "play" /\ UNCHANGED << loopOn, loopInstalls >>
       ELSE InstallLoop /\ UNCHANGED videoSrc
  /\ UNCHANGED << iter, twin, listener, uncaught, logged, mindarThree, videoPlaying,
                  failure, latestEstimate, setupCalls, enableCalls, frames, held >>
  /\ UNCHANGED sceneVars

\* mindarThree.start() rejects.
TrackerFails ==
  /\ pc = "tracker"
  /\ Rejected("tracker")
  /\ UNCHANGED << iter, twin, mindarThree, trackerOn, videoSrc, videoPlaying,
                  loopOn, latestEstimate, setupCalls, enableCalls, loopInstalls,
                  frames, held >>
  /\ UNCHANGED sceneVars

StartFlow ==
  \/ LoadOk
  \/ LoadFails
  \/ RegisterListener
  \/ Click
  \/ CameraGranted
  \/ CameraDenied
  \/ PlayOk
  \/ PlayFails
  \/ TrackerStarts
  \/ TrackerFails

\* ------------------------------------------------------------ the running tracker
\* The tracker publishes a new estimate, at any time between two frames.
TrackerUpdate ==
  /\ trackerOn
  /\ \E est \in Estimates : est # latestEstimate /\ latestEstimate' = est
  /\ UNCHANGED << iter, twin, frames, held >>
  /\ UNCHANGED flowVars
  /\ UNCHANGED sceneVars

\* A rendered frame.
AnimationFrame ==
  /\ loopOn
  /\ FrameCallback
  /\ backgroundGroup'.z <= MaxTravel
  /\ UNCHANGED held

Next == StartFlow \/ TrackerUpdate \/ AnimationFrame

Spec == Init /\ [][Next]_vars

\* ------------------------------------------------------------ a held gesture
\* The face keeps its pose: the tracker publishes a different estimate only
\* after MinHold frames were rendered with the present one.
HeldUpdate ==
  /\ trackerOn
  /\ held >= MinHold
  /\ \E est \in HeldEstimates : est # latestEstimate /\ latestEstimate' = est
  /\ held' = 0
  /\ UNCHANGED << iter, twin, frames >>
  /\ UNCHANGED flowVars
  /\ UNCHANGED sceneVars

HeldFrame ==
  /\ loopOn
  /\ FrameCallback
  /\ backgroundGroup'.z <= MaxHeldTravel
  /\ held' = Min(held + 1, MAX_SPEED \div DECEL)

NextHold == StartFlow \/ HeldUpdate \/ HeldFrame

\* The held gesture is followed through the first iteration, whose frame
\* callback, updateBackground and handleBlendshapes the last iteration repeats.
InitHold == Init /\ iter = 1

SpecHold == InitHold /\ [][NextHold]_vars

\* ------------------------------------------------------------ the two ramps
\* updateBackground of iterations 2 and 3 applied to the twin street: the ramp
\* as if / else-if, then the same move and the same recycling.
UpdateTwin(isBlowing) ==
  LET target == TargetFor(isBlowing)
      speed == RampIfElse(twin.speed, target)
      gz == twin.z + speed
  IN [ speed |-> speed,
       z |-> gz,
       buildings |-> Recycle(twin.buildings, gz),
       atTarget |-> twin.atTarget \/ twin.speed = target ]

\* One call of updateBackground in each form, on the same isBlowing.
FormsFrame ==
  /\ loopOn
  /\ \E isBlowing \in BOOLEAN :
       /\ UpdateBackground(isBlowing)
       /\ twin' = UpdateTwin(isBlowing)
  /\ backgroundGroup'.z <= MaxFormsTravel
  /\ frames' = TRUE
  /\ UNCHANGED << iter, pc, status, listener, uncaught, logged, mindarThree,
                  trackerOn, videoSrc, videoPlaying, loopOn, failure,
                  latestEstimate, cube, setupCalls, enableCalls, loopInstalls,
                  held >>

NextForms == FormsFrame

\* The page of iteration 1 running, street as created, at any speed between 0
\* and MAX_SPEED; the twin street starts as a copy.
InitForms ==
  /\ iter = 1
  /\ pc = "running"
  /\ status = Text("Tracking started - blow to move")
  /\ listener = FALSE
  /\ uncaught = FALSE
  /\ logged = FALSE
  /\ mindarThree = TRUE
  /\ trackerOn = TRUE
  /\ videoSrc = TRUE
  /\ videoPlaying = TRUE
  /\ loopOn = TRUE
  /\ failure = ""
  /\ latestEstimate = NoEstimate
  /\ cube = [created |-> TRUE, color |-> NormalColor, scale |-> 1000,
             metalness |-> 700, roughness |-> 300]
  /\ backgroundGroup = [created |-> TRUE, z |-> 0]
  /\ buildings = CreateBackground
  /\ backgroundSpeed \in 0..MAX_SPEED
  /\ targetSpeed = 0
  /\ speedometer = NoSpeedometer
  /\ setupCalls = 1
  /\ enableCalls = 1
  /\ loopInstalls = 1
  /\ frames = FALSE
  /\ held = 0
  /\ twin = [speed |-> backgroundSpeed, z |-> 0, buildings |-> buildings,
             atTarget |-> FALSE]

SpecForms == InitForms /\ [][NextForms]_vars

\* ------------------------------------------------------------ claims
\* A step taken while the loop is installed that leaves the estimate alone is a
\* run of the frame callback.
IsFrame == loopOn /\ latestEstimate' = latestEstimate

World(n) == buildings[n] + backgroundGroup.z

\* The score of the list's category of that name is above the threshold.
Above(cats, name) ==
  \E n \in DOMAIN cats :
    /\ cats[n].categoryName = name
    /\ cats[n].score > MOUTH_THRESHOLD
    /\ \A m \in 1..(n - 1) : cats[m].categoryName # name

\* The latest estimate has blendshapes and one of the two mouth scores is above
\* the threshold.
ReadsBlowing ==
  /\ latestEstimate.face
  /\ latestEstimate.hasBlend
  /\ \/ Above(latestEstimate.categories, "mouthFunnel")
     \/ Above(latestEstimate.categories, "mouthPucker")

MovingKinds == {"MOVING! Funnel %, Pucker %", "MOVING FORWARD! Funnel: %, Pucker: %"}

\* C1: a frame that reads blendshapes reports blowing (moving status, alert
\* colour, full target speed) exactly when the mouthFunnel or the mouthPucker
\* score is strictly above 0.5; an absent category and a score of exactly 0.5
\* do not count.
C1_BlowingIffAboveThreshold ==
  [][ (IsFrame /\ latestEstimate.face /\ latestEstimate.hasBlend) =>
        /\ (status'.kind \in MovingKinds) <=> ReadsBlowing
        /\ (cube'.color = AlertColor) <=> ReadsBlowing
        /\ (targetSpeed' = MAX_SPEED) <=> ReadsBlowing ]_vars

\* C1 witness: a frame has read scores of exactly 0.5 and reported no blowing.
C1_Witness ==
  /\ frames
  /\ status = Status("Funnel %, Pucker %", 50, 50)
  /\ cube.color = NormalColor
  /\ targetSpeed = 0

\* C2: every frame sets targetSpeed to MAX_SPEED when blowing and to 0 otherwise
\* and moves backgroundSpeed one step towards it, up by ACCEL or down by DECEL,
\* stopping at the target; so 0 <= backgroundSpeed <= MAX_SPEED and targetSpeed
\* is 0 or MAX_SPEED in every state.
C2_LinearRamp ==
  /\ [](/\ 0 <= backgroundSpeed /\ backgroundSpeed <= MAX_SPEED
        /\ targetSpeed \in {0, MAX_SPEED})
  /\ [][ IsFrame =>
           /\ targetSpeed' = IF ReadsBlowing THEN MAX_SPEED ELSE 0
           /\ backgroundSpeed < targetSpeed' =>
                /\ backgroundSpeed' <= targetSpeed'
                /\ \/ backgroundSpeed' = backgroundSpeed + ACCEL
                   \/ /\ backgroundSpeed' = targetSpeed'
                      /\ backgroundSpeed + ACCEL > targetSpeed'
           /\ backgroundSpeed > targetSpeed' =>
                /\ backgroundSpeed' >= targetSpeed'
                /\ \/ backgroundSpeed' = backgroundSpeed - DECEL
                   \/ /\ backgroundSpeed' = targetSpeed'
                      /\ backgroundSpeed - DECEL < targetSpeed'
           /\ backgroundSpeed = targetSpeed' => backgroundSpeed' = backgroundSpeed
     ]_vars

\* C2 witness: the speed stands one DECEL below MAX_SPEED while blowing, so the
\* next step of ACCEL would overshoot the target.
C2_Witness ==
  /\ frames
  /\ targetSpeed = MAX_SPEED
  /\ backgroundSpeed = MAX_SPEED - DECEL

\* C3 (as claimed): when the camera is refused or the tracker fails to start, the
\* error is caught and logged, #status shows an error message, no rejection is
\* left unhandled and the status is not left at "Starting camera...".
C3_FailureCaughtAndShown ==
  failure \in {"camera", "tracker"} =>
    /\ logged
    /\ ~uncaught
    /\ status.kind \in ErrorKinds
    /\ status # Text("Starting camera...")

\* C4: the click handler runs at most once and the animation loop is installed
\* at most once, whatever clicks arrive.
C4_OneShotClick == enableCalls <= 1 /\ loopInstalls <= 1

\* C4 witness: the handler has run, the loop is installed and frames run, and
\* no click listener is left.
C4_Witness == enableCalls = 1 /\ loopInstalls = 1 /\ frames /\ ~listener

\* C5: once the camera, the preview or the tracker has failed after the click,
\* no listener is left to start again, the loop is not installed, no frame has
\* run, and no event of the page changes anything any more.
C5_NoRetry ==
  failure \in {"camera", "play", "tracker"} =>
    /\ ~listener
    /\ enableCalls = 1
    /\ ~loopOn
    /\ loopInstalls = 0
    /\ ~frames
    /\ ~ENABLED Next

\* C5 witness: the tracker failed to start in the last iteration.
C5_Witness ==
  /\ iter = 4
  /\ failure = "tracker"
  /\ status = Text("Failed to start: ")

\* C6 (as claimed): after every updateBackground call every building's world
\* depth is at most 2 and greater than -40.
C6_DepthAbove40 ==
  frames => \A n \in DOMAIN buildings :
              World(n) <= 2000 /\ World(n) > 0 - 40000

\* C6 (amended): after every updateBackground call every building's world depth
\* is at most 2 and at least -40, and greater than -40 once the street has
\* moved; a building whose world depth exceeds 2 in a frame is moved back by
\* exactly 40 in that frame, and no other building is moved.
C6_DepthWithinWindow ==
  /\ [](frames => \A n \in DOMAIN buildings :
          /\ World(n) <= 2000
          /\ World(n) >= 0 - 40000
          /\ backgroundGroup.z > 0 => World(n) > 0 - 40000)
  /\ [][ IsFrame => \A n \in DOMAIN buildings :
           buildings'[n] =
             IF buildings[n] + backgroundGroup'.z > 2000
               THEN buildings[n] - 40000
               ELSE buildings[n] ]_vars

\* C6 witness: the street has scrolled far enough that every building was moved
\* back at least once.
C6_Witness ==
  /\ frames
  /\ \A n \in DOMAIN buildings : buildings[n] < CreateBackground[n]

\* C7: setup runs at most once; once it has completed there are exactly 20
\* buildings in every state; a frame only ever runs with the cube and the
\* background group created.
C7_CreatedOnce ==
  /\ setupCalls <= 1
  /\ (pc # "load" /\ failure # "setup") => Len(buildings) = 20
  /\ frames => /\ cube.created
               /\ backgroundGroup.created
               /\ mindarThree
               /\ setupCalls = 1
               /\ Len(buildings) = 20

\* C7 witness: frames have run and a building has been recycled.
C7_Witness ==
  /\ frames
  /\ Len(buildings) = 20
  /\ buildings[1] = 0 - 2000 - 40000

\* C8: once blowing has been read on 250 frames in a row the speed is MAX_SPEED
\* and stays there; once no blowing has been read on 500 frames in a row the
\* speed is 0, stays 0, and the background group no longer moves.
C8_Converges ==
  /\ [](/\ (ReadsBlowing /\ held >= 250) => backgroundSpeed = MAX_SPEED
        /\ (~ReadsBlowing /\ held >= 500) => backgroundSpeed = 0)
  /\ [][ (IsFrame /\ ~ReadsBlowing /\ held >= 500) =>
           backgroundGroup'.z = backgroundGroup.z ]_vars

\* C8 witness: the speed has come down from MAX_SPEED to 0 over 500 frames
\* without blowing.
C8_Witness ==
  /\ held = 500
  /\ targetSpeed = 0
  /\ backgroundSpeed = 0
  /\ backgroundGroup.z >= 187500

\* The gap from building n to the building created after it (after the last
\* one: the first), in world depth.
Gap(n) == World(n) - World((n % 20) + 1)

\* C9: every building's local depth stays congruent to its initial depth
\* -2 - 2*i modulo 40, no two buildings share a world depth, and the 20
\* buildings occupy 20 slots spaced 2 apart within one window of length 40:
\* going round the buildings in creation order, each is 2 in front of the next
\* except one, which is 38 behind it.
C9_LayoutPreserved ==
  buildings # <<>> =>
    /\ Len(buildings) = 20
    /\ \A n \in DOMAIN buildings :
         /\ buildings[n] <= 0 - 2000 - 2000 * (n - 1)
         /\ (0 - 2000 - 2000 * (n - 1) - buildings[n]) % 40000 = 0
         /\ Gap(n) \in {2000, 2000 - 40000}
         /\ World(n) - World(1) > 0 - 40000
         /\ World(n) - World(1) < 40000
         /\ n # 1 => World(n) # World(1)
    /\ Cardinality({n \in DOMAIN buildings : Gap(n) = 2000 - 40000}) = 1

\* C9 witness: some buildings have been moved back twice and the others once.
C9_Witness ==
  /\ buildings # <<>>
  /\ buildings[1] = 0 - 2000 - 2 * 40000
  /\ buildings[20] = 0 - 40000 - 40000

\* C10: in iterations 1 and 4 the listener is registered only after setup has
\* completed; the preview plays only with the camera stream attached, the
\* tracker starts only with the preview playing, and the status "Tracking
\* started", the loop and every frame come only after all three; a failed step
\* leaves the loop uninstalled and no frame ever runs.
C10_StartOrder ==
  iter \in {1, 4} =>
    /\ (listener \/ enableCalls > 0) =>
         /\ setupCalls = 1 /\ mindarThree /\ cube.created /\ backgroundGroup.created
    /\ pc = "camera" => ~videoSrc /\ ~videoPlaying /\ ~trackerOn
    /\ pc = "play" => videoSrc /\ ~videoPlaying /\ ~trackerOn
    /\ pc = "tracker" => videoSrc /\ videoPlaying /\ ~trackerOn
    /\ videoPlaying => videoSrc
    /\ trackerOn => videoPlaying
    /\ (loopOn \/ frames \/ status = Text("Tracking started - blow to move")) =>
         /\ videoSrc /\ videoPlaying /\ trackerOn /\ failure = ""
    /\ frames => loopOn
    /\ failure # "" => ~loopOn /\ ~frames /\ ~trackerOn

\* C10 witness: the last iteration has gone through the whole sequence and
\* renders frames.
C10_Witness ==
  /\ iter = 4
  /\ frames
  /\ loopOn /\ trackerOn /\ videoPlaying /\ videoSrc

\* C11: in the last iteration a setup that throws leaves the status at "Setup
\* failed: ...", logged, with no click listener registered; the handler never
\* runs, so the camera, the tracker and the loop are never started, and no
\* event of the page changes anything any more.
C11_SetupFailureEndsStart ==
  (iter = 4 /\ failure = "setup") =>
    /\ status = Text("Setup failed: ")
    /\ logged
    /\ ~uncaught
    /\ ~listener
    /\ enableCalls = 0
    /\ ~videoSrc /\ ~videoPlaying /\ ~trackerOn
    /\ ~loopOn /\ loopInstalls = 0 /\ ~frames
    /\ ~ENABLED Next

\* C11 witness: setup of the last iteration threw after the scene was built.
C11_Witness ==
  /\ iter = 4
  /\ failure = "setup"
  /\ cube.created
  /\ status = Text("Setup failed: ")

\* C12: a frame for which there is no estimate, or an estimate without
\* blendshapes, sets targetSpeed to 0 and takes the speed one DECEL down (not
\* below 0), and leaves the cube's colour and #status as they were.
C12_NoEstimateFrame ==
  [][ (IsFrame /\ ~(latestEstimate.face /\ latestEstimate.hasBlend)) =>
        /\ targetSpeed' = 0
        /\ backgroundSpeed' = IF backgroundSpeed > DECEL
                                THEN backgroundSpeed - DECEL ELSE 0
        /\ cube'.color = cube.color
        /\ status' = status ]_vars

\* C12 witness: the cube shows the alert colour and the moving status while the
\* target is 0 and the street slows down.
C12_Witness ==
  /\ frames
  /\ ~(latestEstimate.face /\ latestEstimate.hasBlend)
  /\ cube.color = AlertColor
  /\ status.kind \in MovingKinds
  /\ targetSpeed = 0
  /\ backgroundSpeed > 0

\* C13: once a frame has run, targetSpeed = MAX_SPEED implies that the cube has
\* the alert colour; a frame that reads blendshapes without blowing leaves the
\* cube in the normal colour with targetSpeed 0.
C13_FullSpeedOnlyWhenAlert ==
  /\ [](frames => (targetSpeed = MAX_SPEED => cube.color = AlertColor))
  /\ [][ (IsFrame /\ latestEstimate.face /\ latestEstimate.hasBlend /\ ~ReadsBlowing) =>
           /\ cube'.color = NormalColor
           /\ targetSpeed' = 0 ]_vars

\* C13 witness: a frame has read blowing: full target speed, alert colour.
C13_Witness ==
  /\ frames
  /\ targetSpeed = MAX_SPEED
  /\ cube.color = AlertColor
  /\ backgroundSpeed > 0

\* C15: after every frame the speedometer shows the integer nearest to
\* backgroundSpeed / MAX_SPEED * 100, between 0 and 100, in "#ff4444" above 70,
\* "#ffaa44" above 30 and up to 70, "#44ff44" up to 30.
C15_Speedometer ==
  frames =>
    /\ speedometer.pct \in 0..100
    /\ 2 * (speedometer.pct * MAX_SPEED - 100 * backgroundSpeed) <= MAX_SPEED
    /\ 2 * (100 * backgroundSpeed - speedometer.pct * MAX_SPEED) <= MAX_SPEED
    /\ speedometer.pct > 70 => speedometer.color = "#ff4444"
    /\ (speedometer.pct > 30 /\ speedometer.pct <= 70) => speedometer.color = "#ffaa44"
    /\ speedometer.pct <= 30 => speedometer.color = "#44ff44"

\* C15 witness: the speedometer stands at exactly 70 percent, still amber.
C15_Witness ==
  /\ frames
  /\ speedometer.pct = 70
  /\ speedometer.color = "#ffaa44"
  /\ backgroundSpeed = 352

\* C14: the conditional-expression ramp and the if / else-if ramp agree: from
\* the same street at any speed between 0 and MAX_SPEED, and under the same
\* isBlowing on every frame, the two forms of updateBackground keep the same
\* backgroundSpeed, the same group position and the same building positions.
C14_FormsAgree ==
  /\ twin.speed = backgroundSpeed
  /\ twin.z = backgroundGroup.z
  /\ twin.buildings = buildings
  /\ backgroundSpeed \in 0..MAX_SPEED

\* C14 witness: a frame met the speed at its target (where the two forms take
\* different branches), and later the first building was recycled while the
\* street was slowing down.
C14_Witness ==
  /\ frames
  /\ twin.atTarget
  /\ buildings[1] = CreateBackground[1] - RecycleDistance
  /\ twin.buildings[1] = buildings[1]
  /\ targetSpeed = 0
  /\ backgroundSpeed > 0
  /\ backgroundSpeed < MAX_SPEED

====
